---- MODULE Spec2Model ----
(***************************************************************************)
(* Model of the fragment-aware data path of ouichefs-6.5.7/file.c: the     *)
(* block entry codec, ouichefs_open (truncate), ouichefs_read_fragment,    *)
(* ouichefs_write_fragment, ouichefs_ioctl (usage statistics),             *)
(* apply_contigue, ouichefs_ioctl_defragmentation and my_ioctl.            *)
(*                                                                         *)
(* One file (one inode with its index block) on a small disk.  Sizes are   *)
(* scaled: a block holds BlockSize bytes instead of 4096, the index block  *)
(* IndexCap entries instead of 1024, and an entry packs its two fields in  *)
(* base BlockNumberMod instead of 2^20.  As in the source, the size field  *)
(* of an entry counts modulo the block size (12 bits, 4096 bytes).         *)
(***************************************************************************)
EXTENDS Integers, Sequences, FiniteSets, TLC

\* ---------------------------------------------------------------- bounds
BlockSize == 4        \* bytes in a block (OUICHEFS_BLOCK_SIZE, scaled)
IndexCap == 5         \* entries in the index block (OUICHEFS_BLOCK_SIZE >> 2, scaled)
BlockNumberMod == 8   \* 2^(width of the block-number field) (2^20, scaled)
NrBlocks == 3         \* data blocks of the disk, numbered 1..NrBlocks
MaxByte == 2          \* payload bytes are 1..MaxByte, 0 is the hole byte
MaxLen == 5           \* longest ordinary write
MaxOps == 4           \* operations in one run

\* OUICHEFS_MAX_FILESIZE = (1 << 22) = 1024 * 4096: index capacity times block size
MaxFileSize == IndexCap * BlockSize
\* the size field holds 12 bits and a block 2^12 bytes
SizeMod == BlockSize

\* errno of "no space left on device"; the handlers return it negated
ENOSPC == 28

Offsets == 0..(BlockSize - 1)
Slots == 0..(IndexCap - 1)
Disk == 0..NrBlocks
\* index slots a handler can touch: the IndexCap of the index block and the
\* memory that follows its buffer
Ext == 0..(2 * IndexCap + 1)
ZeroBlock == [k \in Offsets |-> 0]

Min(a, b) == IF a < b THEN a ELSE b
Max(a, b) == IF a > b THEN a ELSE b

\* ----------------------------------------------------------------- codec
\* the two fields packed with the size shifted by one bit too few, so that
\* the size's low bit falls on the block number's high bit
create_block_entry_short_shift(block_number, block_size) ==
    LET lo == block_number % BlockNumberMod
        hi == (block_size % SizeMod) * (BlockNumberMod \div 2)
        top == BlockNumberMod \div 2
    IN \* bitwise or of hi and lo: they share the bit worth top
       hi + lo - (IF (hi \div top) % 2 = 1 /\ (lo \div top) % 2 = 1 THEN top ELSE 0)

\* (block_size << 20) | (block_number & BLOCK_NUMBER_MASK), in 32 bits
create_block_entry(block_number, block_size) ==
    (block_size % SizeMod) * BlockNumberMod + (block_number % BlockNumberMod)

get_block_number(entry) == entry % BlockNumberMod

get_block_size(entry) == (entry \div BlockNumberMod) % SizeMod

\* ------------------------------------------------------------- allocator
\* get_free_block: the first free block, 0 when none is left
get_free_block(fr) ==
    IF fr = {} THEN 0 ELSE CHOOSE b \in fr : \A c \in fr : b <= c

\* put_block: gives a block number back; a number that names no data block
\* of the disk is refused
put_block(fr, bno) == IF bno \in 1..NrBlocks THEN fr \cup {bno} ELSE fr

\* ------------------------------------------------------- byte operations
\* memset(block bn + off, 0, n); bytes past the end of the block buffer
\* are outside the model (see the ub flag)
Zero(blks, bn, off, n) ==
    [blks EXCEPT ![bn] =
        [k \in Offsets |-> IF k >= off /\ k < off + n THEN 0 ELSE @[k]]]

\* memcpy(block dbn + doff, block sbn + soff, n) as a byte loop running
\* forward (dir = "fwd") or backward (dir = "bwd"); the two differ only
\* when the regions overlap, which memcpy leaves undefined.
RECURSIVE CopyLoop(_, _, _, _, _, _, _, _)
CopyLoop(blks, dbn, doff, sbn, soff, n, k, dir) ==
    IF k >= n THEN blks
    ELSE LET m == IF dir = "fwd" THEN k ELSE n - 1 - k
             byte == IF soff + m \in Offsets THEN blks[sbn][soff + m] ELSE 0
             nxt == IF doff + m \in Offsets
                    THEN [blks EXCEPT ![dbn][doff + m] = byte]
                    ELSE blks
         IN CopyLoop(nxt, dbn, doff, sbn, soff, n, k + 1, dir)

memcpy(blks, dbn, doff, sbn, soff, n, dir) ==
    CopyLoop(blks, dbn, doff, sbn, soff, n, 0, dir)

\* the scan shared by the reader (lines 370-381) and the writer (632-644):
\* the first maximal run of nonzero bytes at or after offset i
RECURSIVE ScanRun(_, _, _, _)
ScanRun(b, i, start, cnt) ==
    IF i >= BlockSize THEN [start |-> start, cnt |-> cnt]
    ELSE IF b[i] # 0
         THEN ScanRun(b, i + 1, IF start = -1 THEN i ELSE start, cnt + 1)
         ELSE IF start # -1 THEN [start |-> start, cnt |-> cnt]
              ELSE ScanRun(b, i + 1, start, cnt)

\* the caller's buffer of a write: len payload bytes, none of them zero
UserBuf(v, len) == [k \in 0..(len - 1) |-> ((v + k) % MaxByte) + 1]

\* ----------------------------------------------------------------- state
VARIABLES
    index,          \* the file's index block: slot -> packed entry, 0 = unallocated
    blocks,         \* disk blocks: block number -> bytes (block 0 is the superblock)
    free,           \* the allocator's free data blocks
    i_size,         \* inode->i_size
    i_blocks,       \* inode->i_blocks
    ppos,           \* file position of the open handle
    f_append,       \* O_APPEND of the open handle
    nb_block_read,  \* the reader's global counter of consumed blocks
    ub,             \* some access left the index block or a block buffer
    last,           \* the last call: operation, length asked for, return
                    \* value, return site, bytes delivered, arguments handed
                    \* to put_block
    ops,            \* calls made so far
    high            \* highest position a write reached since the file was
                    \* last empty (history, read by no handler)

vars == <<index, blocks, free, i_size, i_blocks, ppos, f_append,
          nb_block_read, ub, last, ops, high>>

\* the values a handler works on; overfull records that the second pass of
\* defragment copied past the end of a destination block, oob that the call
\* used a slot of index->blocks[] at or beyond IndexCap
Cur == [index |-> index, blocks |-> blocks, free |-> free, i_size |-> i_size,
        i_blocks |-> i_blocks, ppos |-> ppos, nb |-> nb_block_read, ub |-> ub,
        ret |-> 0, site |-> "none", out |-> <<>>, put |-> <<>>, len |-> 0,
        overfull |-> FALSE, oob |-> FALSE]

\* the index block as a handler sees it: its IndexCap entries followed by
\* the memory after the buffer, which reads as the word g
Work(idx, g) == [k \in Ext |-> IF k \in Slots THEN idx[k] ELSE g]
Commit(w) == [k \in Slots |-> w[k]]

Return(s, ret, site) == [s EXCEPT !.ret = ret, !.site = site]

\* ------------------------------------------- ouichefs_write_fragment
\* lines 646-648: move the entries after iblock up by n slots, last first
RECURSIVE ShiftLoop(_, _, _, _)
ShiftLoop(w, j, iblock, n) ==
    IF j > iblock
    THEN ShiftLoop(IF j + n \in Ext /\ j \in Ext
                   THEN [w EXCEPT ![j + n] = w[j]] ELSE w,
                   j - 1, iblock, n)
    ELSE w

\* lines 649-659: a fresh zeroed block for every slot iblock+n .. iblock+1;
\* stops at the first allocation that fails
RECURSIVE AllocLoop(_, _, _)
AllocLoop(a, i, iblock) ==
    IF i > iblock
    THEN LET b == get_free_block(a.free)
         IN IF b = 0 THEN [a EXCEPT !.failed = TRUE]
            ELSE AllocLoop([a EXCEPT !.w[i] = create_block_entry(b, 0),
                                     !.blocks[b] = ZeroBlock,
                                     !.free = a.free \ {b}],
                           i - 1, iblock)
    ELSE a

\* lines 719-724: release the entries between the new and the old block count
RECURSIVE ReleaseLoop(_, _, _)
ReleaseLoop(a, i, old) ==
    IF i < old - 1
    THEN ReleaseLoop([a EXCEPT !.free = put_block(a.free, a.w[i]),
                               !.put = Append(a.put, a.w[i]),
                               !.w[i] = 0],
                     i + 1, old)
    ELSE a

\* the size set to the position no matter which of the two is larger
new_size_cursor(npos, size) == npos

\* lines 705-707: the size grows to the new position, it never shrinks
new_size(npos, size) == IF npos > size THEN npos ELSE size

\* lines 686-728: copy the caller's bytes, then the entry, the position, the
\* size and the block count
WriteTail(s, w, buf, len, pos, iblock, bno, needed) ==
    LET offset == pos % BlockSize
        bytes_to_write == Min(len, BlockSize - offset)
        bn == get_block_number(bno)
        blks == [s.blocks EXCEPT ![bn] =
                    [k \in Offsets |->
                        IF k >= offset /\ k < offset + bytes_to_write
                        THEN buf[k - offset] ELSE @[k]]]
        npos == pos + bytes_to_write
        bno2 == create_block_entry(bn, get_block_size(bno) + bytes_to_write)
        w2 == [w EXCEPT ![iblock] = bno2]
        nsize == new_size(npos, s.i_size)
        old == s.i_blocks
        nblocks == IF old = 1 \/ old = 0
                   THEN nsize \div BlockSize + 2
                   ELSE old + needed
        rel == IF old > nblocks
               THEN ReleaseLoop([w |-> w2, free |-> s.free, put |-> s.put],
                                nblocks - 1, old)
               ELSE [w |-> w2, free |-> s.free, put |-> s.put]
    IN [s EXCEPT !.index = Commit(rel.w), !.blocks = blks, !.free = rel.free,
                 !.put = rel.put, !.ppos = npos, !.i_size = nsize,
                 !.i_blocks = nblocks, !.ret = bytes_to_write, !.site = "ok"]

\* lines 645-685: the run found under the write point is moved to a block
\* inserted after iblock
WriteInsert(s, w, buf, len, pos, iblock, bno, needed, run, dir) ==
    LET shifted == ShiftLoop(w, s.i_blocks - 2, iblock, needed)
        a == AllocLoop([w |-> shifted, blocks |-> s.blocks, free |-> s.free,
                        failed |-> FALSE],
                       iblock + needed, iblock)
        past == \/ iblock + needed >= IndexCap
                \/ (s.i_blocks - 2 > iblock /\ s.i_blocks - 2 + needed >= IndexCap)
        oob == s.ub \/ past
    IN IF a.failed
       THEN Return([s EXCEPT !.index = Commit(a.w), !.blocks = a.blocks,
                             !.free = a.free, !.ub = oob,
                             !.oob = s.oob \/ past],
                   -ENOSPC, "insert_alloc")
       ELSE LET last_inserted == a.w[iblock + needed]
                tbn == get_block_number(last_inserted)
                bn == get_block_number(bno)
                b1 == memcpy(a.blocks, tbn, 0, bn, run.start, run.cnt, dir)
                w1 == [a.w EXCEPT ![iblock + needed] =
                          create_block_entry(tbn,
                              get_block_size(last_inserted) + run.cnt)]
                b2 == Zero(b1, bn, run.start, run.cnt)
                bno1 == create_block_entry(bn, get_block_size(bno) - run.cnt)
                w2 == [w1 EXCEPT ![iblock] = bno1]
            IN WriteTail([s EXCEPT !.blocks = b2, !.free = a.free, !.ub = oob,
                                   !.oob = s.oob \/ past],
                         w2, buf, len, pos, iblock, bno1, needed)

\* lines 613-644: the capacity check and the scan for a run to displace
WriteBlock(s, w, buf, len, pos, iblock, bno, dir) ==
    LET offset == pos % BlockSize
        needed == (len + offset) \div BlockSize
        run == ScanRun(s.blocks[get_block_number(bno)], offset, -1, 0)
    IN IF needed + s.i_blocks > IndexCap - 1
       THEN Return([s EXCEPT !.index = Commit(w)], -ENOSPC, "index_cap")
       ELSE IF run.start # -1
            THEN WriteInsert(s, w, buf, len, pos, iblock, bno, needed + 1, run, dir)
            ELSE WriteTail(s, w, buf, len, pos, iblock, bno, needed)

\* lines 583-587: the estimate of the blocks the write will allocate
nr_allocs(s, len) ==
    LET nr == Max(s.ppos + len, s.i_size) \div BlockSize
    IN \* i_blocks - 1 is unsigned: with i_blocks = 0 nothing exceeds it
       IF s.i_blocks # 0 /\ nr > s.i_blocks - 1
       THEN nr - (s.i_blocks - 1) ELSE 0

\* lines 591-612: append mode and the target block, allocated when its
\* entry is zero
WriteTarget(s, buf, len, app, g, dir) ==
    LET pos == IF app THEN s.i_size ELSE s.ppos
        iblock == pos \div BlockSize
        w == Work(s.index, g)
        s1 == [s EXCEPT !.ub = s.ub \/ iblock >= IndexCap,
                        !.oob = s.oob \/ iblock >= IndexCap]
    IN IF w[iblock] = 0
       THEN LET b == get_free_block(s.free)
                e == create_block_entry(b, 0)
            IN IF b = 0
               THEN Return(s1, -ENOSPC, "alloc_target")
               ELSE WriteBlock([s1 EXCEPT !.free = s.free \ {b},
                                          !.blocks[b] = ZeroBlock],
                               [w EXCEPT ![iblock] = e],
                               buf, len, pos, iblock, e, dir)
       ELSE WriteBlock(s1, w, buf, len, pos, iblock, w[iblock], dir)

\* The write with the free-block pre-check of lines 583 to 589 left out:
\* the call goes on to allocate whatever the allocator still has.
write_fragment_no_free_check(s, buf, len, app, g, dir) ==
    IF s.ppos + len > MaxFileSize
    THEN Return(s, -ENOSPC, "size_cap")
    ELSE WriteTarget(s, buf, len, app, g, dir)

\* lines 580-589: the two pre-checks come before anything else
ouichefs_write_fragment(s, buf, len, app, g, dir) ==
    IF s.ppos + len > MaxFileSize
    THEN Return(s, -ENOSPC, "size_cap")
    ELSE IF nr_allocs(s, len) > Cardinality(s.free)
    THEN Return(s, -ENOSPC, "free_blocks")
    ELSE WriteTarget(s, buf, len, app, g, dir)

\* -------------------------------------------------------- ouichefs_open
\* lines 216-219: release and clear entries up to the first zero word
RECURSIVE TruncLoop(_, _)
TruncLoop(a, iblock) ==
    IF iblock \in Ext /\ a.w[iblock] # 0
    THEN TruncLoop([a EXCEPT !.free = put_block(a.free, a.w[iblock]),
                             !.put = Append(a.put, a.w[iblock]),
                             !.w[iblock] = 0],
                   iblock + 1)
    ELSE [a EXCEPT !.stop = iblock]

ouichefs_open(s, wr, trunc, g) ==
    IF wr /\ trunc /\ s.i_size # 0
    THEN LET a == TruncLoop([w |-> Work(s.index, g), free |-> s.free,
                             put |-> <<>>, stop |-> 0], 0)
         IN [s EXCEPT !.index = Commit(a.w), !.free = a.free, !.put = a.put,
                      !.i_size = 0, !.i_blocks = 0,
                      !.ub = s.ub \/ a.stop >= IndexCap,
                      !.oob = s.oob \/ a.stop >= IndexCap,
                      !.ret = 0, !.site = "truncated"]
    ELSE Return(s, 0, "opened")

\* ----------------------------------------------- ouichefs_read_fragment
\* junk is the byte that the memory after a block buffer reads as
ouichefs_read_fragment(s, g, junk) ==
    LET iblock == s.ppos \div BlockSize
        bno == IF iblock \in Slots THEN s.index[iblock] ELSE g
        b == s.blocks[get_block_number(bno)]
        offset == s.ppos % BlockSize
        size == get_block_size(bno)
        run == ScanRun(b, offset, -1, 0)
        out == IF size # 0
               THEN [k \in 1..run.cnt |-> b[run.start + k - 1]]
               ELSE [k \in 1..BlockSize |->
                        IF offset + k - 1 \in Offsets THEN b[offset + k - 1]
                        ELSE junk]
        bytes_read == Len(out)
        s1 == [s EXCEPT !.ub = s.ub \/ iblock >= IndexCap,
                        !.oob = s.oob \/ iblock >= IndexCap]
    IN \* i_blocks - 1 is unsigned: with i_blocks = 0 the counter never reaches it
       IF s.i_blocks # 0 /\ s.nb >= s.i_blocks - 1
       THEN Return([s EXCEPT !.nb = 0], 0, "eos_counter")
       ELSE IF bno = 0
       THEN Return(s1, 0, "eos_unallocated")
       ELSE IF bytes_read >= size
       THEN [s1 EXCEPT !.out = out, !.ret = bytes_read, !.site = "exhausted",
                       !.nb = s.nb + 1,
                       !.ppos = s.ppos + bytes_read + (BlockSize - bytes_read),
                       !.ub = s1.ub \/ (size = 0 /\ offset # 0)]
       ELSE [s1 EXCEPT !.out = out, !.ret = bytes_read, !.site = "partial",
                       !.ppos = s.ppos + bytes_read]

\* ------------------------------------------------------- ouichefs_ioctl
\* the scan with a full block (size field 0) counted as partially filled
RECURSIVE InfoLoopFullAsPartial(_, _, _)
InfoLoopFullAsPartial(idx, i, info) ==
    IF i >= IndexCap THEN info
    ELSE LET entry == idx[i]
             size == get_block_size(entry)
             rec == [info EXCEPT
                       !.blocks = Append(@, <<get_block_number(entry), size>>),
                       !.used_blocks = @ + 1]
         IN IF entry = 0 THEN InfoLoopFullAsPartial(idx, i + 1, info)
            ELSE InfoLoopFullAsPartial(idx, i + 1,
                    [rec EXCEPT !.partially_filled_blocks = @ + 1,
                                !.internal_fragmentation = @ + (BlockSize - size)])

\* lines 774-791
RECURSIVE InfoLoop(_, _, _)
InfoLoop(idx, i, info) ==
    IF i >= IndexCap THEN info
    ELSE LET entry == idx[i]
             size == get_block_size(entry)
             rec == [info EXCEPT
                       !.blocks = Append(@, <<get_block_number(entry), size>>),
                       !.used_blocks = @ + 1]
         IN IF entry = 0 THEN InfoLoop(idx, i + 1, info)
            ELSE IF size # 0 /\ size < BlockSize
            THEN InfoLoop(idx, i + 1,
                    [rec EXCEPT !.partially_filled_blocks = @ + 1,
                                !.internal_fragmentation = @ + (BlockSize - size)])
            ELSE InfoLoop(idx, i + 1, rec)

NoInfo == [used_blocks |-> 0, partially_filled_blocks |-> 0,
           internal_fragmentation |-> 0, blocks |-> <<>>]

ouichefs_ioctl(idx) == InfoLoop(idx, 0, NoInfo)

\* ------------------------------------------------------- apply_contigue
\* lines 830-850 on block bn
RECURSIVE ContigueLoop(_, _, _, _, _, _, _, _)
ContigueLoop(blks, bn, block_pos, empty, full, copy_len, active, dir) ==
    IF block_pos >= BlockSize
    THEN [blocks |-> blks, empty |-> empty, full |-> full,
          copy_len |-> copy_len, active |-> active]
    ELSE IF blks[bn][block_pos] # 0
    THEN IF active
         THEN ContigueLoop(blks, bn, block_pos + 1, empty, full, block_pos,
                           active, dir)
         ELSE ContigueLoop(blks, bn, block_pos + 1, empty, block_pos, copy_len,
                           active, dir)
    ELSE IF active /\ copy_len # 0
    THEN LET b1 == memcpy(blks, bn, full + 1, bn, empty + 1, copy_len - empty, dir)
             b2 == Zero(b1, bn, empty + 1, copy_len - empty)
         IN ContigueLoop(b2, bn, block_pos + 1, copy_len + 1,
                         full + copy_len - (empty + 1), 0, FALSE, dir)
    ELSE ContigueLoop(blks, bn, block_pos + 1, block_pos, full, copy_len,
                      TRUE, dir)

apply_contigue(blks, current_block, dir) ==
    IF get_block_size(current_block) = 0 THEN blks
    ELSE LET bn == get_block_number(current_block)
             r == ContigueLoop(blks, bn, 0, -1, 0, 0, FALSE, dir)
         IN IF r.active /\ r.empty # BlockSize - 1
            THEN Zero(memcpy(r.blocks, bn, r.full, bn, r.empty + 1,
                             r.copy_len - r.empty, dir),
                      bn, r.empty + 1, r.copy_len - r.empty)
            ELSE r.blocks

\* --------------------------------------- ouichefs_ioctl_defragmentation
\* lines 884-891: the compactor on every block up to the first zero entry
RECURSIVE PassOne(_, _, _)
PassOne(s, i, dir) ==
    IF i < IndexCap /\ s.index[i] # 0
    THEN PassOne([s EXCEPT !.blocks = apply_contigue(s.blocks, s.index[i], dir)],
                 i + 1, dir)
    ELSE s

\* lines 918-949: pull from every slot j after i.  size_left is computed once
\* before the loop; the entry written back to slot j takes its block number
\* from a variable that is read before it is set (line 941): the word u, or,
\* with u = -1, the block number the slot had (the variable shares its
\* storage with the outer from_block).
RECURSIVE PullLoop(_, _, _, _, _, _, _, _)
PullLoop(s, i, j, size, size_left, current_block, dir, u) ==
    IF j >= IndexCap THEN [s |-> s, size |-> size, j |-> j]
    ELSE LET from_block == s.index[j]
             size_from == get_block_size(from_block)
             bytes_to_copy == Min(size_left, size_from)
             dbn == get_block_number(current_block)
             sbn == get_block_number(from_block)
             b1 == memcpy(s.blocks, dbn, size, sbn, 0, bytes_to_copy, dir)
             b2 == Zero(b1, sbn, 0, bytes_to_copy)
             size2 == size + bytes_to_copy
             cur2 == create_block_entry(dbn, size2)
             idx1 == [s.index EXCEPT ![i] = cur2]
             over == s.ub \/ (bytes_to_copy > 0 /\ size2 > BlockSize)
             \* the copy of line 928 ended past the end of block i
             full == s.overfull \/ (bytes_to_copy > 0 /\ size2 > BlockSize)
         IN IF bytes_to_copy # size_from
            THEN PullLoop([s EXCEPT
                              !.blocks = apply_contigue(b2, from_block, dir),
                              !.index = [idx1 EXCEPT ![j] =
                                  create_block_entry(
                                      IF u = -1 THEN sbn ELSE u,
                                      size_from - bytes_to_copy)],
                              !.ub = over, !.overfull = full],
                          i, j + 1, size2, size_left, cur2, dir, u)
            ELSE PullLoop([s EXCEPT !.blocks = b2, !.index = idx1, !.ub = over,
                                    !.overfull = full],
                          i, j + 1, size2, size_left, cur2, dir, u)

\* lines 955-959: release the entries from z up to the block count
RECURSIVE ReclaimLoop(_, _)
ReclaimLoop(a, z) ==
    IF z \in Ext /\ (a.i_blocks = 0 \/ z < a.i_blocks - 1)
    THEN ReclaimLoop([a EXCEPT !.free = put_block(a.free, a.w[z]),
                               !.put = Append(a.put, a.w[z]),
                               !.w[z] = 0, !.ran = TRUE],
                     z + 1)
    ELSE a

\* lines 896-963: the second pass
RECURSIVE PassTwo(_, _, _, _, _, _)
PassTwo(s, i, copied_so_far, dir, u, g) ==
    IF i >= IndexCap \/ s.index[i] = 0 THEN s
    ELSE LET current_block == s.index[i]
             size == get_block_size(current_block)
             p == PullLoop(s, i, i + 1, size, BlockSize - size, current_block,
                           dir, u)
             copied == copied_so_far + p.size
             a == ReclaimLoop([w |-> Work(p.s.index, g), free |-> p.s.free,
                               put |-> p.s.put, i_blocks |-> p.s.i_blocks,
                               ran |-> FALSE],
                              p.j + 1)
         IN IF size = 0 THEN PassTwo(s, i + 1, copied_so_far, dir, u, g)
            ELSE IF copied >= s.i_size
            THEN PassTwo([p.s EXCEPT !.index = Commit(a.w), !.free = a.free,
                                     !.put = a.put, !.i_blocks = p.j + 1,
                                     !.ub = p.s.ub \/ a.ran,
                                     !.oob = p.s.oob \/ a.ran],
                         i + 1, copied, dir, u, g)
            ELSE PassTwo(p.s, i + 1, copied, dir, u, g)

ouichefs_ioctl_defragmentation(s, dir, u, g) ==
    Return(PassTwo(PassOne(s, 0, dir), 0, 0, dir, u, g), 0, "defragmented")

\* --------------------------------------------------------------- actions
Lens == 1..MaxLen
Words == {0, 1}                     \* what memory after the index block reads as
Dirs == {"fwd", "bwd"}
Cmds == {"GET_INFO", "GET_DEFRAG", "OTHER"}
Uninit == {-1} \cup Disk           \* what the variable read unset can hold

Init ==
    /\ index = [k \in Slots |-> 0]
    /\ blocks = [b \in Disk |-> IF b = 0 THEN [k \in Offsets |-> 1] ELSE ZeroBlock]
    /\ free = 1..NrBlocks
    /\ i_size = 0
    /\ i_blocks = 1
    /\ ppos = 0
    /\ f_append = FALSE
    /\ nb_block_read = 0
    /\ ub = FALSE
    /\ last = [op |-> "none", len |-> 0, ret |-> 0, site |-> "none",
               out |-> <<>>, put |-> <<>>, info |-> NoInfo]
    /\ ops = 0
    /\ high = 0

\* the handler's result becomes the next state
Becomes(s, op, info) ==
    /\ index' = s.index
    /\ blocks' = s.blocks
    /\ free' = s.free
    /\ i_size' = s.i_size
    /\ i_blocks' = s.i_blocks
    /\ ppos' = s.ppos
    /\ nb_block_read' = s.nb
    /\ ub' = s.ub
    /\ last' = [op |-> op, len |-> s.len, ret |-> s.ret, site |-> s.site,
                out |-> s.out, put |-> s.put, info |-> info]
    /\ ops' = ops + 1
    /\ high' = IF op = "write" /\ s.site = "ok" THEN Max(high, s.ppos)
               ELSE IF op = "open" /\ s.site = "truncated" THEN 0
               ELSE high

\* open(2): a new handle at position 0; ouichefs_open truncates
Open ==
    /\ ops < MaxOps
    /\ \E wr \in BOOLEAN, trunc \in BOOLEAN, app \in BOOLEAN, g \in Words :
          /\ Becomes(ouichefs_open([Cur EXCEPT !.ppos = 0], wr, trunc, g),
                     "open", NoInfo)
          /\ f_append' = app

\* lseek(2), generic_file_llseek
Seek ==
    /\ ops < MaxOps
    /\ \E c \in 0..(MaxFileSize - 1) :
          /\ c # ppos
          /\ Becomes([Cur EXCEPT !.ppos = c], "seek", NoInfo)
    /\ UNCHANGED f_append

\* write(2): one call of ouichefs_write_fragment
Write ==
    /\ ops < MaxOps
    /\ \E v \in 1..MaxByte, len \in Lens, g \in Words, dir \in Dirs :
          Becomes(ouichefs_write_fragment([Cur EXCEPT !.len = len],
                                          UserBuf(v, len), len, f_append, g, dir),
                  "write", NoInfo)
    /\ UNCHANGED f_append

\* read(2): one call of ouichefs_read_fragment
Read ==
    /\ ops < MaxOps
    /\ \E g \in Words, junk \in 0..1 :
          Becomes(ouichefs_read_fragment(Cur, g, junk), "read", NoInfo)
    /\ UNCHANGED f_append

\* ioctl(2): my_ioctl
my_ioctl(cmd) ==
    /\ ops < MaxOps
    /\ CASE cmd = "GET_INFO" ->
              Becomes(Return(Cur, 0, "info"), "info", ouichefs_ioctl(index))
         [] cmd = "GET_DEFRAG" ->
              \E dir \in Dirs, u \in Uninit, g \in Words :
                 Becomes(ouichefs_ioctl_defragmentation(Cur, dir, u, g),
                         "defrag", NoInfo)
         [] OTHER -> Becomes(Return(Cur, 0, "nothing"), "ioctl", NoInfo)
    /\ UNCHANGED f_append

Ioctl == \E cmd \in Cmds : my_ioctl(cmd)

Next == Open \/ Seek \/ Write \/ Read \/ Ioctl

Spec == Init /\ [][Next]_vars

\* ---------------------------------------------------------- observations
\* read(2) repeated from position 0 with a fresh counter until a call
\* delivers nothing: the concatenation of the bytes delivered
RECURSIVE ReadLoop(_, _, _, _)
ReadLoop(s, acc, g, fuel) ==
    LET r == ouichefs_read_fragment(s, g, 0)
    IN IF fuel = 0 \/ r.ret = 0 THEN acc
       ELSE ReadLoop(r, acc \o r.out, g, fuel - 1)

ReadAll(s, g) ==
    ReadLoop([s EXCEPT !.ppos = 0, !.nb = 0], <<>>, g, 2 * MaxFileSize)

\* write(2) repeated until every byte of the buffer is accepted or a call fails
RECURSIVE WriteLoop(_, _, _, _, _, _, _)
WriteLoop(s, v, len, done, app, g, dir) ==
    IF done >= len THEN s
    ELSE LET r == ouichefs_write_fragment(s, UserBuf(v + done, len - done),
                                          len - done, app, g, dir)
         IN IF r.site # "ok" THEN r
            ELSE WriteLoop(r, v, len, done + r.ret, app, g, dir)

WriteAll(s, v, len, app, g, dir) == WriteLoop(s, v, len, 0, app, g, dir)

\* the bytes of UserBuf(v, len) as a sequence
BufSeq(v, len) == [k \in 1..len |-> UserBuf(v, len)[k - 1]]

\* byte p of the file, through the index
ByteAt(s, p) ==
    s.blocks[get_block_number(s.index[p \div BlockSize])][p % BlockSize]

\* the layout that appends alone leave: the first i_size positions hold
\* payload, every later position of an allocated block is a hole, and the
\* blocks allocated are exactly those the size reaches
Dense(s) ==
    /\ \A k \in Slots : (s.index[k] # 0) <=> (k * BlockSize < s.i_size)
    /\ \A k, m \in Slots :
          (k # m /\ s.index[k] # 0 /\ s.index[m] # 0)
             => get_block_number(s.index[k]) # get_block_number(s.index[m])
    /\ \A k \in Slots : s.index[k] # 0 =>
          /\ get_block_number(s.index[k]) \in 1..NrBlocks
          /\ get_block_size(s.index[k]) =
                Min(s.i_size - k * BlockSize, BlockSize) % SizeMod
    /\ \A p \in 0..(MaxFileSize - 1) :
          s.index[p \div BlockSize] # 0 => ((ByteAt(s, p) # 0) <=> (p < s.i_size))
    /\ s.i_blocks # 0 /\ s.i_blocks - 1 >= Cardinality({k \in Slots : s.index[k] # 0})

SubSeqFrom(q, a) == SubSeq(q, a, Len(q))

\* ------------------------------------------------------------------ C1
\* C1: on a file laid out by appends, a non-append write of len >= 1 nonzero
\* bytes at a cursor c strictly inside the content, repeated until all bytes
\* are accepted, makes a sequential read from 0 return
\* old[0..c) ++ new ++ old[c..).
C1_InsertionReadsBack ==
    \A v \in 1..MaxByte, len \in Lens, g \in Words, dir \in Dirs :
       LET old == ReadAll(Cur, g)
           w == WriteAll(Cur, v, len, FALSE, g, dir)
       IN (Dense(Cur) /\ 0 < ppos /\ ppos < i_size /\ w.site = "ok")
             => ReadAll(w, g) = SubSeq(old, 1, ppos) \o BufSeq(v, len)
                                   \o SubSeqFrom(old, ppos + 1)

\* ------------------------------------------------------------------ C2
\* C2: defragment leaves the logical size and the bytes a sequential read
\* from 0 returns unchanged; stated for the states that appends followed by
\* one insertion reach.
C2_DefragPreservesContent ==
    \A v \in 1..MaxByte, len \in Lens, g \in Words, dir \in Dirs, u \in Uninit :
       LET w == WriteAll(Cur, v, len, FALSE, g, dir)
           d == ouichefs_ioctl_defragmentation(w, dir, u, g)
       IN (Dense(Cur) /\ 0 < ppos /\ ppos < i_size /\ w.site = "ok")
             => (d.i_size = w.i_size /\ ReadAll(d, g) = ReadAll(w, g))

\* ------------------------------------------------------------------ C3
\* C3: the statistics computed after defragment report no more internal
\* fragmentation and no more used blocks than the statistics before it.
C3_DefragNeverWorsens ==
    \A g \in Words, dir \in Dirs, u \in Uninit :
       LET d == ouichefs_ioctl_defragmentation(Cur, dir, u, g)
           before == ouichefs_ioctl(index)
           after == ouichefs_ioctl(d.index)
       IN /\ after.internal_fragmentation <= before.internal_fragmentation
          /\ after.used_blocks <= before.used_blocks

\* ------------------------------------------------------------------ C4
EmptyFile == i_size = 0 /\ \A k \in Slots : index[k] = 0

\* C4: on an empty file, writing n nonzero bytes (1 <= n <= BlockSize) at
\* cursor 0 and then reading from cursor 0 delivers exactly those n bytes.
C4_AppendReadRoundTrip ==
    \A v \in 1..MaxByte, n \in 1..BlockSize, g \in Words, dir \in Dirs :
       LET w == ouichefs_write_fragment([Cur EXCEPT !.ppos = 0], UserBuf(v, n),
                                        n, FALSE, g, dir)
           r == ouichefs_read_fragment([w EXCEPT !.ppos = 0], g, 0)
       IN (EmptyFile /\ w.site = "ok")
             => (r.ret = n /\ r.out = BufSeq(v, n))

\* ------------------------------------------------------------------ C5
\* C5: a read with the cursor at or past the logical size delivers zero
\* bytes and returns no error.
C5_EndOfStream ==
    \A c \in i_size..(MaxFileSize - 1), g \in Words, junk \in 0..1 :
       LET r == ouichefs_read_fragment([Cur EXCEPT !.ppos = c], g, junk)
       IN r.ret = 0 /\ r.out = <<>>

\* ------------------------------------------------------------------ C6
\* C6: a write refused at the index capacity check returns no-space and
\* leaves every entry of the index block as it was before the call.
C6_CapacityLeavesIndex ==
    [][(last'.op = "write" /\ last'.site = "index_cap")
          => (last'.ret = -ENOSPC /\ index' = index)]_vars

\* ------------------------------------------------------------------ C7
PreCheckFails(len) ==
    \/ ppos + len > MaxFileSize
    \/ nr_allocs(Cur, len) > Cardinality(free)

\* C7: a write whose pre-check fails (cursor + len over the size cap, or
\* more new blocks estimated than the allocator has free) returns no-space
\* and changes neither the index, the blocks, the free set, the logical
\* size, the block counter nor the cursor.
C7_PreCheckNoSideEffects ==
    [][(last'.op = "write" /\ PreCheckFails(last'.len))
          => (/\ last'.ret = -ENOSPC
              /\ UNCHANGED <<index, blocks, free, i_size, i_blocks, ppos>>)]_vars

\* a write was refused because the estimate exceeds the free blocks, on a
\* file that already holds data
C7_Witness ==
    /\ last.op = "write" /\ last.site = "free_blocks" /\ last.ret = -ENOSPC
    /\ i_size > 0 /\ \E k \in Slots : index[k] # 0

\* ------------------------------------------------------------------ C8
Referenced(idx) == {get_block_number(idx[k]) : k \in {m \in Slots : idx[m] # 0}}

\* C8: a truncating open of a non-empty file leaves every index entry zero,
\* has released exactly the block numbers referenced before, each once, and
\* leaves the logical size and the block counter 0.
C8_TruncateReleasesAll ==
    [][(last'.op = "open" /\ last'.site = "truncated")
          => (/\ \A k \in Slots : index'[k] = 0
              /\ Len(last'.put) = Cardinality(Referenced(index))
              /\ {last'.put[n] : n \in 1..Len(last'.put)} = Referenced(index)
              /\ i_size' = 0 /\ i_blocks' = 0)]_vars

\* ------------------------------------------------------------------ C9
NoSharing(idx) ==
    \A k, m \in Slots :
       (k # m /\ idx[k] # 0 /\ idx[m] # 0)
          => get_block_number(idx[k]) # get_block_number(idx[m])

\* C9: in the state a write leaves, a write that fails with no-space
\* part-way through an insertion included, no block number appears in two
\* allocated entries of the index block.
C9_NoSharedBlock == last.op = "write" => NoSharing(index)

\* ----------------------------------------------------------------- C10
\* C10: the allocated entries of the index block form a prefix.
C10_IndexContiguous ==
    \A k \in Slots : index[k] # 0 => \A j \in 0..(k - 1) : index[j] # 0

\* ----------------------------------------------------------------- C11
\* what the caller of a read observes: the return value and the bytes
ReadResult(r) == <<r.ret, r.out>>

\* a read on a handle whose consumed-block counter is its own: a handle
\* that has read nothing has consumed no block
FreshHandleRead(s, g, junk) == ouichefs_read_fragment([s EXCEPT !.nb = 0], g, junk)

\* C11: the first read on a newly opened handle returns what the file's
\* state and the handle's cursor determine, whatever reads were made on
\* other handles before the open.
C11_ReadsDoNotInterfere ==
    \A g \in Words, junk \in 0..1 :
       last.op = "open"
          => ReadResult(ouichefs_read_fragment(Cur, g, junk))
                = ReadResult(FreshHandleRead(Cur, g, junk))

\* ----------------------------------------------------------------- C12
\* the position a write starts at: the cursor, or the logical size when the
\* handle is in append mode (lines 591-594)
WriteStart == IF f_append THEN i_size ELSE ppos

\* C12 as stated: after every successful write the cursor is the previous
\* cursor plus the bytes returned and the size is max(previous size, new
\* cursor); the size is always the highest write position reached since the
\* file was last empty.
C12_CursorAndSize ==
    /\ [][(last'.op = "write" /\ last'.ret > 0)
             => (/\ ppos' = ppos + last'.ret
                 /\ i_size' = Max(i_size, ppos'))]_vars
    /\ [](i_size = high)

\* C12 amended: after every successful write the cursor is the position the
\* write started at (the previous cursor, or the previous size in append
\* mode) plus the bytes returned, and the size is max(previous size, new
\* cursor), so a write never decreases it; the size is always the highest
\* write position reached since the file was last empty.
C12_CursorAndSizeFromStart ==
    /\ [][(last'.op = "write" /\ last'.ret > 0)
             => (/\ ppos' = WriteStart + last'.ret
                 /\ i_size' = Max(i_size, ppos')
                 /\ i_size' >= i_size)]_vars
    /\ [](i_size = high)

\* a successful append-mode write on a file that already held data
C12_Witness ==
    /\ last.op = "write" /\ last.ret > 0 /\ f_append
    /\ i_size > last.ret /\ ppos = i_size

\* ----------------------------------------------------------------- C13
\* C13: for every block number below BlockNumberMod and every used size
\* below the block size, the entry made of the two, stored in any slot of
\* the index block, decodes to the two.
C13_CodecRoundTrip ==
    \A b \in 0..(BlockNumberMod - 1), sz \in 0..(BlockSize - 1), k \in Slots :
       LET stored == [index EXCEPT ![k] = create_block_entry(b, sz)]
       IN get_block_number(stored[k]) = b /\ get_block_size(stored[k]) = sz

\* the writer has encoded an entry with a non-zero size for a block it
\* allocated, and the entry in the index decodes to that block and that size
C13_Witness ==
    /\ last.op = "write" /\ last.ret > 0
    /\ \E k \in Slots, b \in 1..NrBlocks, sz \in 1..(BlockSize - 1) :
          /\ index[k] = create_block_entry(b, sz)
          /\ get_block_number(index[k]) = b
          /\ get_block_size(index[k]) = sz
          /\ b \notin free

\* ----------------------------------------------------------------- C14
\* the reported entries <<block number, used size>> that are partially filled
Partial(rep) == {n \in 1..Len(rep) : 0 < rep[n][2] /\ rep[n][2] < BlockSize}

RECURSIVE SumWaste(_, _)
SumWaste(rep, S) ==
    IF S = {} THEN 0
    ELSE LET n == CHOOSE m \in S : TRUE
         IN (BlockSize - rep[n][2]) + SumWaste(rep, S \ {n})

\* C14: for the index block of every reachable state the statistics satisfy
\* internal_fragmentation = sum of BlockSize - used_size over the reported
\* entries with 0 < used_size < BlockSize, partially_filled_blocks = the
\* number of those entries, used_blocks = the number of non-zero entries
\* (each of them reported).
C14_UsageAccounting ==
    LET info == ouichefs_ioctl(index)
    IN /\ info.internal_fragmentation = SumWaste(info.blocks, Partial(info.blocks))
       /\ info.partially_filled_blocks = Cardinality(Partial(info.blocks))
       /\ info.used_blocks = Cardinality({k \in Slots : index[k] # 0})
       /\ Len(info.blocks) = info.used_blocks

\* the info query answered on an index holding a full block (size field 0)
\* and a partially filled one
C14_Witness ==
    /\ last.op = "info"
    /\ last.info = ouichefs_ioctl(index)
    /\ last.info.partially_filled_blocks >= 1
    /\ last.info.used_blocks > last.info.partially_filled_blocks

\* ----------------------------------------------------------------- C15
\* C15: a control command that is neither the info query nor defragment
\* returns an error (a negative value), never success, and changes nothing
\* of the file, the disk, the allocator, the handle or the read counter.
C15_UnsupportedCommand ==
    [][last'.op = "ioctl"
          => (/\ last'.ret < 0
              /\ UNCHANGED <<index, blocks, free, i_size, i_blocks, ppos,
                             f_append, nb_block_read>>)]_vars

\* ----------------------------------------------------------------- C16
\* the nonzero bytes of a block from offset i on, in their order
RECURSIVE Payload(_, _)
Payload(b, i) ==
    IF i >= BlockSize THEN <<>>
    ELSE IF b[i] # 0 THEN <<b[i]>> \o Payload(b, i + 1)
    ELSE Payload(b, i + 1)

\* the block holding the same payload from offset 0 on, then zeros
Compacted(b) ==
    LET pl == Payload(b, 0)
    IN [i \in Offsets |-> IF i < Len(pl) THEN pl[i + 1] ELSE 0]

\* C16: for every allocated block of a reachable state, whatever its holes
\* and runs, the compactor leaves the nonzero bytes contiguous from offset 0
\* in their order followed by zeros, none lost or duplicated; a block whose
\* entry has used size 0 is left untouched.  (The compactor does not write
\* the entry, so its used size stays.)
C16_CompactorPostcondition ==
    \A k \in Slots, dir \in Dirs :
       (index[k] # 0 /\ get_block_number(index[k]) \in 1..NrBlocks)
          => LET bn == get_block_number(index[k])
                 after == apply_contigue(blocks, index[k], dir)[bn]
             IN IF get_block_size(index[k]) = 0
                THEN after = blocks[bn]
                ELSE after = Compacted(blocks[bn])

\* ----------------------------------------------------------------- C17
\* C17: in the second pass of defragment the bytes pulled into a block never
\* exceed the spare capacity it had when its turn began: no copy ends past
\* offset BlockSize of the destination and its used size never exceeds
\* BlockSize, from whatever reachable state defragment is started.
C17_PullWithinSpare ==
    \A dir \in Dirs, u \in Uninit, g \in Words :
       ~ouichefs_ioctl_defragmentation(Cur, dir, u, g).overfull

\* ----------------------------------------------------------------- C18
\* slot k of s is allocated and its block holds at least one payload byte
HoldsPayload(s, k) ==
    /\ s.index[k] # 0
    /\ \E o \in Offsets : s.blocks[get_block_number(s.index[k])][o] # 0

\* C18: when defragment completes, no index entry is left allocated beyond
\* the last block that holds payload, the block of every entry it zeroed is
\* back with the allocator, and the allocated-block counter is not larger
\* than before.
C18_Reclamation ==
    \A dir \in Dirs, u \in Uninit, g \in Words :
       LET d == ouichefs_ioctl_defragmentation(Cur, dir, u, g)
       IN /\ d.i_blocks <= i_blocks
          /\ \A k \in Slots :
                d.index[k] # 0 => \E m \in Slots : m >= k /\ HoldsPayload(d, m)
          /\ \A k \in Slots :
                (index[k] # 0 /\ d.index[k] = 0)
                   => get_block_number(index[k]) \in d.free

\* ----------------------------------------------------------------- C19
\* C19: every byte that is live in the target block before a successful
\* write is afterwards still at its position in the target block, outside
\* the bytes the write stored, or in a block the write allocated; for
\* every reachable layout of the target block and every len.
C19_NoClobber ==
    \A v \in 1..MaxByte, len \in Lens, g \in Words, dir \in Dirs :
       LET iblock == ppos \div BlockSize
           offset == ppos % BlockSize
           tbn == get_block_number(index[iblock])
           w == ouichefs_write_fragment(Cur, UserBuf(v, len), len, FALSE, g, dir)
           fresh == free \ w.free
       IN (iblock \in Slots /\ index[iblock] # 0 /\ tbn \in 1..NrBlocks
              /\ w.site = "ok")
             => \A p \in Offsets :
                   blocks[tbn][p] # 0
                      => \/ /\ ~(offset <= p /\ p < offset + w.ret)
                            /\ w.blocks[tbn][p] = blocks[tbn][p]
                         \/ \E nb \in fresh, q \in Offsets :
                               w.blocks[nb][q] = blocks[tbn][p]

\* ----------------------------------------------------------------- C20
\* C20: when the entry of the block under the cursor has used size 0, a
\* read at offset o of the block returns BlockSize - o bytes, the bytes
\* o .. BlockSize-1 of that block, and reads nothing past the block's end.
\* Stated for a handle that has consumed no block on a file whose block
\* counter lets the first read through (i_blocks # 1).
C20_FullBlockRead ==
    \A c \in 0..(MaxFileSize - 1), g \in Words, junk \in 0..1 :
       LET entry == index[c \div BlockSize]
           o == c % BlockSize
           bn == get_block_number(entry)
           r == FreshHandleRead([Cur EXCEPT !.ppos = c, !.ub = FALSE], g, junk)
       IN (entry # 0 /\ get_block_size(entry) = 0 /\ bn \in 1..NrBlocks
              /\ i_blocks # 1)
             => /\ r.ret = BlockSize - o
                /\ r.out = [n \in 1..(BlockSize - o) |-> blocks[bn][o + n - 1]]
                /\ ~r.ub

\* ----------------------------------------------------------------- C21
\* C21: a read that delivers at least used_size bytes of the block under
\* the cursor leaves the cursor at the start of the next block, whatever
\* offset it started from, and the consumed-block counter one higher; a
\* read that delivers fewer leaves the cursor advanced by what it delivered
\* and the counter as it was.
C21_CursorAfterRead ==
    [][(/\ last'.op = "read"
        /\ last'.site \in {"exhausted", "partial"}
        /\ ppos < MaxFileSize)
          => LET iblock == ppos \div BlockSize
                 size == get_block_size(index[iblock])
             IN IF last'.ret >= size
                THEN /\ ppos' = (iblock + 1) * BlockSize
                     /\ nb_block_read' = nb_block_read + 1
                ELSE /\ ppos' = ppos + last'.ret
                     /\ nb_block_read' = nb_block_read]_vars

\* ----------------------------------------------------------------- C22
\* the live payload bytes stored in block bn
LiveBytes(blks, bn) == Cardinality({o \in Offsets : blks[bn][o] # 0})

\* C22: in every reachable state the used size decoded from each allocated
\* entry is the number of live payload bytes in the entry's block (the
\* count itself, not the count modulo the size field's range).
C22_UsedSizeIsLiveBytes ==
    \A k \in Slots :
       (index[k] # 0 /\ get_block_number(index[k]) \in 1..NrBlocks)
          => get_block_size(index[k]) = LiveBytes(blocks, get_block_number(index[k]))

\* ----------------------------------------------------------------- C23
\* the live payload bytes in the blocks of the allocated entries k..IndexCap-1
RECURSIVE TotalLive(_, _, _)
TotalLive(idx, blks, k) ==
    IF k >= IndexCap THEN 0
    ELSE (IF idx[k] # 0 /\ get_block_number(idx[k]) \in 1..NrBlocks
          THEN LiveBytes(blks, get_block_number(idx[k])) ELSE 0)
         + TotalLive(idx, blks, k + 1)

\* C23: in every reachable state the logical size is the number of live
\* payload bytes in the file's allocated blocks; and an insertion of len
\* bytes strictly inside a file laid out by appends grows the logical size
\* by len.
C23_SizeIsLiveBytes ==
    /\ i_size = TotalLive(index, blocks, 0)
    /\ \A v \in 1..MaxByte, len \in Lens, g \in Words, dir \in Dirs :
          LET w == WriteAll(Cur, v, len, FALSE, g, dir)
          IN (Dense(Cur) /\ 0 < ppos /\ ppos < i_size /\ w.site = "ok")
                => w.i_size = i_size + len

\* ----------------------------------------------------------------- C24
Allocated(idx) == {k \in Slots : idx[k] # 0}

\* C24: whenever the file has an allocated entry, the allocated-block
\* counter minus one is the number of allocated index entries, and the
\* counter does not exceed the index block capacity.
C24_CounterMatchesEntries ==
    Allocated(index) # {}
       => /\ i_blocks - 1 = Cardinality(Allocated(index))
          /\ i_blocks <= IndexCap

\* ----------------------------------------------------------------- C25
\* every block taken from the allocator is referenced by an index entry
NoLeak ==
    \A b \in 1..NrBlocks :
       b \notin free => \E k \in Allocated(index) : get_block_number(index[k]) = b

\* C25: after any sequence of calls, failed ones included, no block is
\* leaked, and every call hands put_block only block numbers of data blocks
\* that were allocated when the call began (a decoded block number, never a
\* packed entry, never block 0).
C25_AllocatorConservation ==
    /\ []NoLeak
    /\ [][\A n \in 1..Len(last'.put) :
             last'.put[n] \in 1..NrBlocks /\ last'.put[n] \notin free]_vars

\* ----------------------------------------------------------------- C26
\* C26: the logical size never exceeds the file-size cap, and from every
\* reachable state a write (of any len, in the handle's mode), a read, an
\* open (truncating or not) and a defragment use only slots of the index
\* block below its capacity.
C26_IndexAccessInBounds ==
    /\ i_size <= MaxFileSize
    /\ \A g \in Words, dir \in Dirs :
          /\ \A v \in 1..MaxByte, len \in Lens :
                ~ouichefs_write_fragment(Cur, UserBuf(v, len), len, f_append,
                                         g, dir).oob
          /\ \A junk \in 0..1 : ~ouichefs_read_fragment(Cur, g, junk).oob
          /\ \A wr \in BOOLEAN, trunc \in BOOLEAN :
                ~ouichefs_open([Cur EXCEPT !.ppos = 0], wr, trunc, g).oob
          /\ \A u \in Uninit : ~ouichefs_ioctl_defragmentation(Cur, dir, u, g).oob

\* ----------------------------------------------------------------- C27
\* the live (nonzero) bytes of the file in logical order: the payload of
\* every allocated slot from slot k on, slot by slot
RECURSIVE FilePayload(_, _, _)
FilePayload(idx, blks, k) ==
    IF k >= IndexCap THEN <<>>
    ELSE IF idx[k] # 0 /\ get_block_number(idx[k]) \in 1..NrBlocks
         THEN Payload(blks[get_block_number(idx[k])], 0)
                 \o FilePayload(idx, blks, k + 1)
         ELSE FilePayload(idx, blks, k + 1)

\* C27: from every reachable state, reading sequentially from cursor 0
\* until a read returns 0 delivers exactly the live bytes of the file, each
\* once and in logical order, whatever holes the blocks contain and
\* whatever allocated blocks without payload lie before later payload.
C27_SequentialReadDeliversAll ==
    \A g \in Words : ReadAll(Cur, g) = FilePayload(index, blocks, 0)

====
